---- MODULE Spec2Model ----
(***************************************************************************)
(* The browser-driven end-to-end scenarios of src/testsprite_tests.  Every *)
(* script is one coroutine run_test(): it acquires a Playwright handle, a  *)
(* browser, a context and a page inside `try`, navigates, waits for the    *)
(* page and its frames, performs its steps and assertions, and releases    *)
(* the handles in `finally`.  The browser and the application under test   *)
(* are the environment: every awaited browser operation either returns,    *)
(* times out (playwright TimeoutError, a subclass of async_api.Error), or  *)
(* raises async_api.Error.                                                 *)
(***************************************************************************)
EXTENDS Integers, Sequences, FiniteSets, TLC

VARIABLES
    scenario,   \* run -> 0 (no run) or the script it executes, 1..8
    pc,         \* run -> position of the coroutine
    ip,         \* run -> index of the current statement of the script body
    loc,        \* run -> local variables of run_test
    exc,        \* run -> the exception propagating in the coroutine
    handles,    \* handle -> "absent" | "open" | "closed" (the browser side)
    frames,     \* run -> the list page.frames iterated at line 41
    frameIdx,   \* run -> position of the loop of line 41 in that list
    failing,    \* run -> the assert statements whose predicate is false
    hist        \* run -> record of what the run has done so far

vars == <<scenario, pc, ip, loc, exc, handles, frames, frameIdx, failing, hist>>

\* ---------------------------------------------------------------- bounds
\* Largest number of entries of page.frames (the main frame is always one).
MaxFrames == 2
\* Largest number of assert predicates the application makes false in a run.
MaxFailing == 2

\* The coroutines one process can hold.  A script starts one, asyncio.run(run_test());
\* the state is kept per run so that a second one can be started beside it.
Runs == {1, 2}

\* ------------------------------------------------------------- the scripts
TC001 == 1
TC002 == 2
TC007 == 3
TC011 == 4
TC013S == 5
TC013R == 6
TC015 == 7
TC016 == 8
Scenarios == {TC001, TC002, TC007, TC011, TC013S, TC013R, TC015, TC016}

\* One statement of a script body: the operation, its source line, and an
\* argument (goto: the wait_until in force; assert: "const" for `assert False`;
\* query: the Playwright query awaited; click/fill: where its timeout comes
\* from, "explicit" in the generated step on `elem`, "default" in
\* `logout_button.click()`; locator: the variable the locator is assigned to).
I(op, line, arg) == [op |-> op, line |-> line, arg |-> arg]

\* The four statements every generated step consists of, e.g. lines 49-51:
\*   frame = context.pages[-1]
\*   elem = frame.locator('xpath=...').nth(0)
\*   await page.wait_for_timeout(3000); await elem.click(timeout=5000)
StepDelayAfter(kind, line) ==
    << I("pages_last", line, ""), I("locator", line + 1, "elem"),
       I(kind, line + 2, "explicit"), I("wait_for_timeout", line + 2, "") >>
Step(kind, line) ==
    << I("pages_last", line, ""), I("locator", line + 1, "elem"),
       I("wait_for_timeout", line + 2, ""), I(kind, line + 2, "explicit") >>

\* `assert await frame.locator('text=...').count() > 0`: the query, then the test
AssertQuery(q, line) == << I("query", line, q), I("assert", line, "env") >>

Prog_TC001 ==
    Step("click", 49) \o Step("fill", 55) \o Step("fill", 60) \o Step("fill", 65)
    \o Step("click", 70) \o << I("wheel", 76, "") >>
    \o Step("click", 80) \o Step("click", 86) \o Step("click", 92)
    \o Step("click", 98)
    \o << I("assert", 103, "const"), I("sleep", 104, "") >>

Prog_TC002 ==
    Step("click", 49) \o Step("fill", 55) \o Step("fill", 60) \o Step("click", 65)
    \o Step("click", 71)
    \o AssertQuery("url_or_visible", 77) \o AssertQuery("is_visible", 80)
    \o AssertQuery("is_visible", 83) \o AssertQuery("is_visible", 86)
    \o << I("sleep", 87, "") >>

Prog_TC007 ==
    Step("click", 49) \o Step("fill", 55) \o Step("fill", 60) \o Step("click", 65)
    \o Step("click", 71) \o Step("fill", 77) \o Step("fill", 82) \o Step("click", 87)
    \o Step("click", 93) \o Step("fill", 99) \o Step("fill", 104)
    \o Step("click", 109)
    \o << I("pages_last", 115, "") >>
    \o AssertQuery("count", 117) \o AssertQuery("count", 118)
    \o AssertQuery("count", 119) \o AssertQuery("count", 123)
    \o AssertQuery("count", 124) \o AssertQuery("count", 125)
    \o AssertQuery("count", 129) \o AssertQuery("count", 130)
    \o AssertQuery("count", 131)
    \o << I("sleep", 132, "") >>

Prog_TC011 ==
    Step("click", 49) \o Step("click", 55) \o Step("fill", 61) \o Step("fill", 66)
    \o Step("click", 71) \o Step("fill", 77) \o Step("fill", 82) \o Step("click", 87)
    \o << I("goto", 93, "load") >>
    \o Step("fill", 97) \o Step("fill", 102) \o Step("click", 107)
    \o << I("assert", 112, "const"), I("sleep", 113, "") >>

Prog_TC013S ==
    << I("goto", 49, "load") >> \o Step("click", 53)
    \o << I("wheel", 59, ""), I("wheel", 63, "") >>
    \o Step("click", 67) \o Step("fill", 73) \o Step("fill", 78) \o Step("click", 83)
    \o << I("goto", 89, "load") >> \o AssertQuery("count", 93)
    \o << I("goto", 96, "load") >> \o AssertQuery("count", 97)
    \o << I("goto", 100, "load") >> \o AssertQuery("title", 101)
    \o AssertQuery("count", 103)
    \o << I("sleep", 105, "") >>

Prog_TC013R ==
    Step("click", 49) \o Step("fill", 55) \o Step("fill", 60) \o Step("click", 65)
    \o Step("click", 71) \o Step("fill", 77) \o Step("fill", 82) \o Step("click", 87)
    \o Step("click", 93) \o Step("fill", 99) \o Step("fill", 104)
    \o Step("click", 109)
    \o << I("locator", 115, "candidate_dashboard"), I("query", 116, "wait_for") >>
    \o AssertQuery("count", 117) \o AssertQuery("count", 118)
    \o AssertQuery("count", 119)
    \o << I("locator", 121, "logout_button"), I("click", 122, "default"),
          I("wait_for_timeout", 123, ""),
          I("locator", 125, "recruiter_dashboard"),
          I("query", 126, "wait_for") >>
    \o AssertQuery("count", 127) \o AssertQuery("count", 128)
    \o AssertQuery("count", 129)
    \o << I("click", 131, "default"), I("wait_for_timeout", 132, ""),
          I("locator", 134, "admin_dashboard"), I("query", 135, "wait_for") >>
    \o AssertQuery("count", 136) \o AssertQuery("count", 137)
    \o AssertQuery("count", 138)
    \o << I("sleep", 139, "") >>

Prog_TC015 ==
    Step("click", 49) \o Step("fill", 55) \o Step("fill", 60) \o Step("click", 65)
    \o Step("click", 71) \o Step("fill", 77) \o Step("fill", 82) \o Step("click", 87)
    \o Step("click", 93) \o Step("fill", 99) \o Step("click", 104)
    \o << I("goto", 110, "load"), I("goto", 114, "load") >>
    \o Step("click", 118) \o Step("click", 124) \o Step("fill", 130)
    \o Step("fill", 135) \o Step("click", 140) \o Step("click", 146)
    \o Step("click", 152)
    \o << I("assert", 157, "const"), I("sleep", 158, "") >>

Prog_TC016 ==
    << I("goto", 49, "load") >> \o Step("click", 53)
    \o << I("wheel", 59, ""), I("wheel", 63, "") >>
    \o << I("query", 67, "count"), I("query", 67, "count"), I("assert", 68, "env") >>
    \o << I("query", 72, "text_content"), I("query", 73, "text_content"),
          I("query", 74, "text_content") >>
    \o << I("assert", 85, "env"), I("assert", 86, "env"), I("assert", 87, "env") >>
    \o << I("sleep", 88, "") >>

Prog(s) ==
    CASE s = TC001 -> Prog_TC001
      [] s = TC002 -> Prog_TC002
      [] s = TC007 -> Prog_TC007
      [] s = TC011 -> Prog_TC011
      [] s = TC013S -> Prog_TC013S
      [] s = TC013R -> Prog_TC013R
      [] s = TC015 -> Prog_TC015
      [] s = TC016 -> Prog_TC016

\* The assert statements of a script (its checkpoint), by body index.
Asserts(s) == {i \in 1..Len(Prog(s)) : Prog(s)[i].op = "assert"}
\* Those whose predicate the application decides (`assert False` is not one).
EnvAsserts(s) == {i \in Asserts(s) : Prog(s)[i].arg = "env"}
\* The fill and click statements of a script.
Interactions(s) == {i \in 1..Len(Prog(s)) : Prog(s)[i].op \in {"click", "fill"}}

\* --------------------------------------------------------------- handles
\* Python's None, and the object a run obtains from the browser side.
None == [owner |-> 0, kind |-> "None"]
\* The object an acquisition returns: each call creates a new one.
HShared(r, k) == [owner |-> 1, kind |-> k]
H(r, k) == [owner |-> r, kind |-> k]
HandleKinds == {"pw", "browser", "context", "page", "popup"}
HandleIds == [owner : Runs, kind : HandleKinds]

\* `if context:` and the two tests after it: a handle object is truthy, None is not.
TruthyAlways(h) == TRUE
Truthy(h) == h # None

\* The classes of exception a statement can leave the coroutine with.
Exceptions == {"none", "Error", "TimeoutError", "AssertionError", "NameError",
               "AttributeError", "CancelledError"}

\* `except async_api.Error: pass` around the load-state waits: TimeoutError is a
\* subclass of async_api.Error, so both are caught.
SwallowedOnlyNone(e) == e = "none"
Swallowed(e) == e \in {"none", "Error", "TimeoutError"}

\* Where control goes when a statement inside `try` raises, and where it goes
\* when the body runs to its end: the `finally` clause in both cases.
NoFinally == "exit"
OnRaise == "finally_context"
AfterBody == "finally_context"

\* The order of the three tests of the `finally` clause.
ReleasePwBeforeBrowser(p) ==
    CASE p = "finally_context" -> "finally_pw"
      [] p = "finally_pw" -> "finally_browser"
      [] p = "finally_browser" -> "exit"
ReleaseNext(p) ==
    CASE p = "finally_context" -> "finally_browser"
      [] p = "finally_browser" -> "finally_pw"
      [] p = "finally_pw" -> "exit"

\* How asyncio.run(run_test()) ends: a normal return, an AssertionError
\* traceback, or the traceback of any other exception.
VerdictAssertAsError(e) == IF e = "none" THEN "Passed" ELSE "Error"
VerdictOnlyKnown(e) ==
    IF e = "none" THEN "Passed"
    ELSE IF e = "AssertionError" THEN "Failed"
    ELSE IF e = "Error" THEN "Error" ELSE "Unreported"
Verdict(e) ==
    IF e = "none" THEN "Passed"
    ELSE IF e = "AssertionError" THEN "Failed" ELSE "Error"

\* What an awaited browser operation raises for each outcome of the browser.
ExcOf(o) ==
    CASE o = "ok" -> "none"
      [] o = "timeout" -> "TimeoutError"
      [] o = "error" -> "Error"

\* elem.click(timeout=5000) / elem.fill(...): the locator is looked up when the
\* action is awaited; the action waits until one match is actionable, else it
\* raises TimeoutError; a dead browser raises Error.
InteractNotActionableAsError(alive, matches, actionable) ==
    IF ~alive \/ (matches # 0 /\ ~actionable) THEN "Error"
    ELSE IF matches = 0 THEN "TimeoutError" ELSE "none"
InteractIgnoresMissing(alive, matches, actionable) ==
    IF ~alive THEN "Error" ELSE "none"
Interact(alive, matches, actionable) ==
    IF ~alive THEN "Error"
    ELSE IF matches = 0 \/ ~actionable THEN "TimeoutError" ELSE "none"

\* Why an interaction failed, as the environment knows it.
Cause(alive, matches, actionable) ==
    IF ~alive THEN "crash"
    ELSE IF matches = 0 THEN "not_found"
    ELSE IF ~actionable THEN "not_actionable" ELSE "none"

\* What frame.locator(path).nth(0) gives its caller when the document holds
\* `matches` elements for the path: always a locator object.
LocatorEager(matches) == IF matches = 0 THEN "NotFound" ELSE "locator"
LocatorResult(matches) == "locator"

\* The outcomes a query can have: wait_for and text_content wait for the element.
QueryOutcomes(q) ==
    IF q \in {"wait_for", "text_content"} THEN {"ok", "timeout", "error"}
    ELSE {"ok", "error"}

\* The timeouts of the script, in milliseconds.
DefaultTimeoutMs == 5000      \* context.set_default_timeout(5000)
GotoTimeoutMs == 10000        \* page.goto(..., timeout=10000)
LoadStateTimeoutMs == 3000    \* wait_for_load_state(..., timeout=3000)
ClickTimeoutMs == 5000        \* elem.click(timeout=5000)
WaitForTimeoutMs == 5000      \* wait_for(state='visible', timeout=5000)

\* The timeout that bounds the wait of an awaited browser operation: the one
\* passed to the call, or else the default set on the context.  0 would
\* disable the timeout.
TimeoutOfUnbounded(op, arg) == 0
TimeoutOf(op, arg) ==
    IF op = "goto" THEN GotoTimeoutMs
    ELSE IF op = "load_state" THEN LoadStateTimeoutMs
    ELSE IF op = "click" /\ arg = "explicit" THEN ClickTimeoutMs
    ELSE IF op = "query" /\ arg = "wait_for" THEN WaitForTimeoutMs
    ELSE DefaultTimeoutMs

\* await page.goto(url, wait_until=w, timeout=10000): the call returns once the
\* navigation has reached the event w; the default of wait_until is "load".
GotoCommitOnly(w, alive, commits, loads) ==
    IF ~alive THEN "Error" ELSE IF ~commits THEN "TimeoutError" ELSE "none"
GotoExc(w, alive, commits, loads) ==
    IF ~alive THEN "Error"
    ELSE IF ~commits THEN "TimeoutError"
    ELSE IF w = "load" /\ ~loads THEN "TimeoutError"
    ELSE "none"

\* What a query awaited inside a checkpoint raises for each outcome of the
\* browser: its own exception, which no statement of the script catches.
QueryFailureAsFalse(q, o) == IF o = "ok" THEN "none" ELSE "AssertionError"
QueryExc(q, o) == ExcOf(o)

\* TC002 line 77: '/recruiter/dashboard' in frame.url or await ....is_visible()
UrlAbsentOrVisible(inUrl, visible) == ~inUrl \/ visible
VisibleOnly(inUrl, visible) == visible
UrlOrVisible(inUrl, visible) == inUrl \/ visible

\* `assert <predicate>`: raises AssertionError when the predicate is false.
AssertNeverRaises(holds) == "none"
AssertExc(holds) == IF holds THEN "none" ELSE "AssertionError"

Range(q) == {q[i] : i \in 1..Len(q)}
Set(f, r, v) == [f EXCEPT ![r] = v]
Stmt(r) == Prog(scenario[r])[ip[r]]

\* ----------------------------------------------------------------- state
NoHist ==
    [ attempts |-> 0,          \* navigations, waits, steps and asserts begun
      released |-> 0,          \* times the finally clause was entered
      attemptsAtRelease |-> 0, \* attempts when it was entered
      closeLog |-> << >>,      \* handles whose close/stop was called, in order
      verdicts |-> << >>,      \* the ways the run has ended
      evald |-> << >>,         \* assert statements evaluated, in order
      reported |-> {},         \* assert statements that raised AssertionError
      settled |-> {},          \* frames whose load-state wait was awaited
      timedOut |-> {},         \* frames whose load-state wait raised
      bodyReached |-> FALSE,   \* the first step was reached
      acqFailed |-> "none",    \* the acquisition statement that raised
      infra |-> FALSE,         \* some operation raised a non-timeout Error
      failIp |-> 0,            \* the fill/click statement that raised
      failCause |-> "none",    \* and why
      failKind |-> "none",     \* and the exception it raised
      lateSteps |-> 0,         \* body statements begun after a fill/click raised
      locMatches |-> 0,        \* matches in the document at the last locator()
      located |-> "none",      \* what the last locator() call gave its caller
      releaseRaised |-> FALSE, \* a statement of the finally clause raised
      delayDone |-> FALSE,     \* the statement just completed is the settle delay
      builtAt |-> [elem |-> 0, logout_button |-> 0],
                               \* where the locator in each variable was built
      step |-> [ip |-> 0, delayed |-> FALSE, own |-> FALSE, found |-> 0,
                samePage |-> TRUE],
                               \* the last fill/click: preceded by its delay,
                               \* on a locator built since the one before,
                               \* matches in the document when it was awaited
      cancelled |-> FALSE,     \* the caller cancelled the coroutine
      used |-> {},             \* the handles body statements were invoked on
      closed |-> {},           \* the handles whose close()/stop() was awaited
      navHang |-> "none",      \* the page of the navigation just made committed
                               \* but never loaded: the goto "passed" or "raised"
      evalErr |-> 0,           \* the query of a checkpoint that raised
      redirected |-> "unknown",\* TC002 line 77: the URL holds the dashboard path
      dashVisible |-> "unknown", \* TC002 line 77: what is_visible() returned
      urlOrVisible |-> "unknown" ] \* TC002 line 77: the value of the predicate

NoLoc == [pw |-> None, browser |-> None, context |-> None, page |-> None,
          frame |-> None, elem |-> None, logout_button |-> None]

\* One run of one script: run 1 executes it, no other run is started.
Init ==
    /\ \E s \in Scenarios : scenario = [r \in Runs |-> IF r = 1 THEN s ELSE 0]
    /\ failing = [r \in Runs |-> {}]
    /\ pc = [r \in Runs |-> IF r = 1 THEN "start" ELSE "off"]
    /\ ip = [r \in Runs |-> 0]
    /\ loc = [r \in Runs |-> NoLoc]
    /\ exc = [r \in Runs |-> "none"]
    /\ handles = [h \in HandleIds |-> "absent"]
    /\ frames = [r \in Runs |-> << >>]
    /\ frameIdx = [r \in Runs |-> 0]
    /\ hist = [r \in Runs |-> NoHist]

\* A statement of the try block raises e: the exception propagates to OnRaise.
Leave(r, e, h) ==
    /\ pc' = Set(pc, r, OnRaise)
    /\ exc' = Set(exc, r, e)
    /\ hist' = Set(hist, r, [h EXCEPT !.infra = @ \/ e = "Error"])

\* --------------------------------------------------- acquisition (lines 11-29)
\* pw = await async_api.async_playwright().start()
PwStart(r) ==
    /\ pc[r] = "start"
    /\ \E o \in {"ok", "error"} :
         IF o = "ok"
         THEN /\ loc' = Set(loc, r, [loc[r] EXCEPT !.pw = H(r, "pw")])
              /\ handles' = [handles EXCEPT ![H(r, "pw")] = "open"]
              /\ pc' = Set(pc, r, "launch")
              /\ UNCHANGED <<exc, hist>>
         ELSE /\ Leave(r, "Error", [hist[r] EXCEPT !.acqFailed = "start"])
              /\ UNCHANGED <<loc, handles>>
    /\ UNCHANGED <<scenario, ip, frames, frameIdx, failing>>

\* browser = await pw.chromium.launch(headless=True, args=[...])
Launch(r) ==
    /\ pc[r] = "launch"
    /\ \E o \in {"ok", "error"} :
         IF o = "ok"
         THEN /\ loc' = Set(loc, r, [loc[r] EXCEPT !.browser = H(r, "browser")])
              /\ handles' = [handles EXCEPT ![H(r, "browser")] = "open"]
              /\ pc' = Set(pc, r, "new_context")
              /\ UNCHANGED <<exc, hist>>
         ELSE /\ Leave(r, "Error", [hist[r] EXCEPT !.acqFailed = "launch"])
              /\ UNCHANGED <<loc, handles>>
    /\ UNCHANGED <<scenario, ip, frames, frameIdx, failing>>

\* context = await browser.new_context(); context.set_default_timeout(5000)
NewContext(r) ==
    /\ pc[r] = "new_context"
    /\ \E o \in {"ok", "error"} :
         IF o = "ok"
         THEN /\ loc' = Set(loc, r, [loc[r] EXCEPT !.context = H(r, "context")])
              /\ handles' = [handles EXCEPT ![H(r, "context")] = "open"]
              /\ pc' = Set(pc, r, "new_page")
              /\ UNCHANGED <<exc, hist>>
         ELSE /\ Leave(r, "Error", [hist[r] EXCEPT !.acqFailed = "new_context"])
              /\ UNCHANGED <<loc, handles>>
    /\ UNCHANGED <<scenario, ip, frames, frameIdx, failing>>

\* page = await context.new_page()
NewPage(r) ==
    /\ pc[r] = "new_page"
    /\ \E o \in {"ok", "error"} :
         IF o = "ok"
         THEN /\ loc' = Set(loc, r, [loc[r] EXCEPT !.page = H(r, "page")])
              /\ handles' = [handles EXCEPT ![H(r, "page")] = "open"]
              /\ pc' = Set(pc, r, "goto")
              /\ UNCHANGED <<exc, hist>>
         ELSE /\ Leave(r, "Error", hist[r])
              /\ UNCHANGED <<loc, handles>>
    /\ UNCHANGED <<scenario, ip, frames, frameIdx, failing>>

\* Beginning one more navigation, wait, step or assert.
\* A wait whose awaited event never comes: it raises TimeoutError when its
\* timeout t expires, and with no timeout the coroutine stays suspended in it.
Unbounded(t, e) == e = "TimeoutError" /\ t = 0
Expire(r, t, e, h) ==
    IF Unbounded(t, e)
    THEN /\ pc' = Set(pc, r, "hung")
         /\ hist' = Set(hist, r, h)
         /\ UNCHANGED exc
    ELSE Leave(r, e, h)

Attempt(h) == [h EXCEPT !.attempts = @ + 1, !.navHang = "none"]

\* One navigation: the browser is alive or not, the response commits or not,
\* the page fires its load event or never does.
Navigate(r, w, h, onward) ==
    \E alive \in BOOLEAN, commits \in BOOLEAN, loads \in BOOLEAN :
       /\ ~alive => ~commits
       /\ ~commits => ~loads
       /\ LET e == GotoExc(w, alive, commits, loads)
              g == [h EXCEPT !.navHang =
                       IF ~(commits /\ ~loads) THEN "none"
                       ELSE IF e = "none" THEN "passed" ELSE "raised"]
          IN  IF e = "none"
              THEN onward /\ hist' = Set(hist, r, g)
              ELSE Expire(r, TimeoutOf("goto", w), e, g) /\ UNCHANGED ip

\* ------------------------------------- navigation and settling (lines 32-45)
\* await page.goto("http://localhost:3000", wait_until="commit", timeout=10000)
GotoInitial(r) ==
    /\ pc[r] = "goto"
    /\ Navigate(r, "commit", Attempt(hist[r]),
                pc' = Set(pc, r, "wait_main") /\ UNCHANGED <<exc, ip>>)
    /\ UNCHANGED <<scenario, loc, handles, frames, frameIdx, failing>>

WaitMainLoad(r) ==
    /\ pc[r] = "wait_main"
    /\ \E o \in {"ok", "timeout", "error"} :
         LET h == [Attempt(hist[r]) EXCEPT
                      !.settled = @ \cup {0},
                      !.timedOut = IF o = "ok" THEN @ ELSE @ \cup {0}]
             t == TimeoutOf("load_state", "")
         IN  IF Swallowed(ExcOf(o)) /\ ~Unbounded(t, ExcOf(o))
             THEN /\ pc' = Set(pc, r, "enter_frames")
                  /\ hist' = Set(hist, r, h)
                  /\ UNCHANGED exc
             ELSE Expire(r, t, ExcOf(o), h)
    /\ UNCHANGED <<scenario, ip, loc, handles, frames, frameIdx, failing>>

\* for frame in page.frames:        (the list is read once, when the loop starts)
EnterFrames(r) ==
    /\ pc[r] = "enter_frames"
    /\ \E n \in 1..MaxFrames :
         /\ frames' = Set(frames, r, [i \in 1..n |-> i])
         /\ frameIdx' = Set(frameIdx, r, 1)
    /\ pc' = Set(pc, r, "wait_frame")
    /\ UNCHANGED <<scenario, ip, loc, exc, handles, failing, hist>>

\*     try: await frame.wait_for_load_state("domcontentloaded", timeout=3000)
\*     except async_api.Error: pass
WaitFrameLoad(r) ==
    /\ pc[r] = "wait_frame"
    /\ frameIdx[r] <= Len(frames[r])
    /\ \E o \in {"ok", "timeout", "error"} :
         LET f == frames[r][frameIdx[r]]
             last == frameIdx[r] = Len(frames[r])
             h == [Attempt(hist[r]) EXCEPT
                      !.settled = @ \cup {f},
                      !.timedOut = IF o = "ok" THEN @ ELSE @ \cup {f},
                      !.bodyReached = last /\ Swallowed(ExcOf(o))]
             t == TimeoutOf("load_state", "")
         IN  IF Swallowed(ExcOf(o)) /\ ~Unbounded(t, ExcOf(o))
             THEN /\ frameIdx' = Set(frameIdx, r, frameIdx[r] + 1)
                  /\ pc' = Set(pc, r, IF last THEN "body" ELSE "wait_frame")
                  /\ ip' = Set(ip, r, IF last THEN 1 ELSE ip[r])
                  /\ hist' = Set(hist, r, h)
                  /\ UNCHANGED exc
             ELSE /\ Expire(r, t, ExcOf(o), h)
                  /\ UNCHANGED <<frameIdx, ip>>
    /\ UNCHANGED <<scenario, loc, handles, frames, failing>>

\* ------------------------------------------------------- the script body
\* A body statement begins: one more attempt, and one more late step when a
\* fill or click has already raised.
\* context.pages: the pages open in the context of a run, in the order they
\* were opened: the one new_page() returned, then any the application opened.
Pages(r) ==
    << H(r, "page") >>
    \o (IF handles[H(r, "popup")] = "open" THEN << H(r, "popup") >> ELSE << >>)

\* The variable a fill or click is called on: `elem` in the generated steps,
\* `logout_button` in the two clicks of TC013_Role lines 122 and 131.
LocVar(arg) == IF arg = "default" THEN "logout_button" ELSE "elem"

\* The local variable a body statement is invoked on.
Target(r) ==
    LET op == Stmt(r).op
    IN  IF op = "pages_last" THEN loc[r].context
        ELSE IF op \in {"locator", "query"} THEN loc[r].frame
        ELSE IF op \in {"click", "fill"} THEN loc[r][LocVar(Stmt(r).arg)]
        ELSE IF op \in {"wait_for_timeout", "goto"} THEN loc[r].page
        ELSE None

Begin(r) ==
    [Attempt(hist[r]) EXCEPT
        !.lateSteps = IF hist[r].failIp # 0 THEN @ + 1 ELSE @,
        !.used = @ \cup ({Target(r)} \ {None}),
        !.delayDone = FALSE]

\* The statement returned: the next statement, or the end of the body.
Continue(r, h) ==
    /\ ip' = Set(ip, r, ip[r] + 1)
    /\ hist' = Set(hist, r, h)
    /\ UNCHANGED <<pc, exc>>

\* frame = context.pages[-1]
PagesLast(r) ==
    /\ pc[r] = "body" /\ Stmt(r).op = "pages_last"
    /\ loc' = Set(loc, r, [loc[r] EXCEPT !.frame = Pages(r)[Len(Pages(r))]])
    /\ Continue(r, Begin(r))
    /\ UNCHANGED <<scenario, handles, frames, frameIdx, failing>>

\* elem = frame.locator('xpath=...').nth(0): builds a lazy locator bound to the
\* page.  The document holds `matches` elements for the path at this moment;
\* the call does not look, so it returns a locator whatever that number is.
Locator(r) ==
    /\ pc[r] = "body" /\ Stmt(r).op = "locator"
    /\ \E matches \in 0..1 :
         /\ LET v == Stmt(r).arg
            IN  loc' = Set(loc, r, IF v \in DOMAIN hist[r].builtAt
                                   THEN [loc[r] EXCEPT ![v] = loc[r].frame]
                                   ELSE loc[r])
         /\ Continue(r, [Begin(r) EXCEPT
                            !.builtAt = IF Stmt(r).arg \in DOMAIN @
                                        THEN [@ EXCEPT ![Stmt(r).arg] = ip[r]]
                                        ELSE @,
                            !.locMatches = matches,
                            !.located = LocatorResult(matches)])
    /\ UNCHANGED <<scenario, handles, frames, frameIdx, failing>>

\* await page.wait_for_timeout(3000)
WaitForTimeout(r) ==
    /\ pc[r] = "body" /\ Stmt(r).op = "wait_for_timeout"
    /\ \E o \in {"ok", "error"} :
         IF o = "ok"
         THEN Continue(r, [Begin(r) EXCEPT !.delayDone = TRUE])
         ELSE Leave(r, ExcOf(o), Begin(r)) /\ UNCHANGED ip
    /\ UNCHANGED <<scenario, loc, handles, frames, frameIdx, failing>>

\* The shared shape of elem.click(...) and elem.fill(...): the document is
\* searched now; the environment fixes what is found.
InteractStep(r) ==
    \E alive \in BOOLEAN, matches \in 0..1, actionable \in BOOLEAN :
       LET e == Interact(alive, matches, actionable)
           c == Cause(alive, matches, actionable)
           h == [Begin(r) EXCEPT
                    !.failIp = IF c = "none" THEN @ ELSE ip[r],
                    !.failCause = IF c = "none" THEN @ ELSE c,
                    !.failKind = IF c = "none" THEN @ ELSE e,
                    !.step = [ip |-> ip[r],
                              delayed |-> hist[r].delayDone,
                              own |-> hist[r].builtAt[LocVar(Stmt(r).arg)]
                                         > hist[r].step.ip,
                              found |-> IF alive THEN matches ELSE 0,
                              samePage |-> loc[r][LocVar(Stmt(r).arg)]
                                              = loc[r].page]]
       IN  IF e = "none"
           THEN Continue(r, h)
           ELSE Expire(r, TimeoutOf(Stmt(r).op, Stmt(r).arg), e, h)
                /\ UNCHANGED ip

\* await elem.click(timeout=5000)
Click(r) ==
    /\ pc[r] = "body" /\ Stmt(r).op = "click"
    /\ InteractStep(r)
    /\ UNCHANGED <<scenario, loc, handles, frames, frameIdx, failing>>

\* await elem.fill('...')
Fill(r) ==
    /\ pc[r] = "body" /\ Stmt(r).op = "fill"
    /\ InteractStep(r)
    /\ UNCHANGED <<scenario, loc, handles, frames, frameIdx, failing>>

\* await page.goto('http://localhost:3000/...', timeout=10000)
Goto(r) ==
    /\ pc[r] = "body" /\ Stmt(r).op = "goto"
    /\ Navigate(r, Stmt(r).arg, Begin(r),
                ip' = Set(ip, r, ip[r] + 1) /\ UNCHANGED <<pc, exc>>)
    /\ UNCHANGED <<scenario, loc, handles, frames, frameIdx, failing>>

\* await page.mouse.wheel(0, window.innerHeight): `window` is no name of the
\* script, so evaluating the argument raises NameError before any call is made.
MouseWheel(r) ==
    /\ pc[r] = "body" /\ Stmt(r).op = "wheel"
    /\ Leave(r, "NameError", Begin(r))
    /\ UNCHANGED <<scenario, ip, loc, handles, frames, frameIdx, failing>>

\* await <locator>.count() / .is_visible() / .text_content() / .wait_for(...),
\* await page.title().  In TC002 line 77 the call is the right operand of `or`:
\* it is made only when the URL does not hold the dashboard path.
Query(r) ==
    /\ pc[r] = "body" /\ Stmt(r).op = "query"
    /\ LET q == Stmt(r).arg
           first == q = "url_or_visible"
       IN  \E inUrl \in BOOLEAN, o \in QueryOutcomes(q), visible \in BOOLEAN :
              /\ ~first => ~inUrl /\ ~visible
              /\ inUrl \/ o # "ok" => ~visible
              /\ inUrl => o = "ok"
              /\ LET e == IF inUrl THEN "none" ELSE QueryExc(q, o)
                     h == [Begin(r) EXCEPT
                              !.evalErr = IF o = "ok" THEN @ ELSE ip[r],
                              !.redirected =
                                  IF ~first THEN @ ELSE IF inUrl THEN "yes" ELSE "no",
                              !.dashVisible =
                                  IF ~first \/ inUrl \/ o # "ok" THEN @
                                  ELSE IF visible THEN "yes" ELSE "no",
                              !.urlOrVisible =
                                  IF ~first \/ o # "ok" THEN @
                                  ELSE IF UrlOrVisible(inUrl, visible)
                                       THEN "true" ELSE "false"]
                 IN  IF e = "none"
                     THEN Continue(r, h)
                     ELSE Expire(r, TimeoutOf("query", q), e, h)
                          /\ UNCHANGED ip
    /\ UNCHANGED <<scenario, loc, handles, frames, frameIdx, failing>>

\* assert <predicate>, '...'
\* The state the application is in when the script reaches its first assert
\* decides which of the script's predicates are false; the predicate of TC002
\* line 77 has the value its query gave it.
AssertStmt(r) ==
    /\ pc[r] = "body" /\ Stmt(r).op = "assert"
    /\ \E F \in SUBSET EnvAsserts(scenario[r]) :
         /\ Cardinality(F) <= MaxFailing
         /\ hist[r].evald # << >> => F = failing[r]
         /\ Prog(scenario[r])[ip[r] - 1].arg = "url_or_visible"
               => (ip[r] \in F <=> hist[r].urlOrVisible = "false")
         /\ failing' = Set(failing, r, F)
         /\ LET holds == Stmt(r).arg = "env" /\ ip[r] \notin F
                e == AssertExc(holds)
                h == [Begin(r) EXCEPT
                         !.evald = Append(@, ip[r]),
                         !.reported = IF e = "none" THEN @ ELSE @ \cup {ip[r]}]
            IN  IF e = "none"
                THEN Continue(r, h)
                ELSE Leave(r, e, h) /\ UNCHANGED ip
    /\ UNCHANGED <<scenario, loc, handles, frames, frameIdx>>

\* await asyncio.sleep(5): the last statement of the try block
Sleep(r) ==
    /\ pc[r] = "body" /\ Stmt(r).op = "sleep"
    /\ pc' = Set(pc, r, AfterBody)
    /\ hist' = Set(hist, r, Begin(r))
    /\ UNCHANGED <<scenario, ip, loc, exc, handles, frames, frameIdx, failing>>

\* ------------------------------------------------- the finally clause
\* One test of the finally clause on local x of kind k: close it when truthy.
\* Only context.close() can raise (the browser is gone); browser.close() and
\* pw.stop() ignore a browser that is already gone.
Release(r, x, k, outcomes) ==
    LET h0 == [hist[r] EXCEPT
                  !.released = IF k = "context" THEN @ + 1 ELSE @,
                  !.attemptsAtRelease =
                      IF k = "context" THEN hist[r].attempts ELSE @]
    IN  IF ~Truthy(x)
        THEN /\ pc' = Set(pc, r, ReleaseNext(pc[r]))
             /\ hist' = Set(hist, r, h0)
             /\ UNCHANGED <<exc, handles>>
        ELSE IF x = None
        THEN \* None has no close(): AttributeError
             /\ pc' = Set(pc, r, "exit")
             /\ exc' = Set(exc, r, "AttributeError")
             /\ hist' = Set(hist, r, [h0 EXCEPT !.releaseRaised = TRUE])
             /\ UNCHANGED handles
        ELSE \E o \in outcomes :
               LET h1 == [h0 EXCEPT !.closeLog = Append(@, k),
                                    !.closed = @ \cup {x}]
               IN  IF o = "ok"
                   THEN /\ pc' = Set(pc, r, ReleaseNext(pc[r]))
                        /\ handles' = [handles EXCEPT ![x] = "closed"]
                        /\ hist' = Set(hist, r, h1)
                        /\ UNCHANGED exc
                   ELSE /\ pc' = Set(pc, r, "exit")
                        /\ exc' = Set(exc, r, "Error")
                        /\ hist' = Set(hist, r, [h1 EXCEPT !.releaseRaised = TRUE,
                                                            !.infra = TRUE])
                        /\ UNCHANGED handles

\* if context: await context.close()
CloseContext(r) ==
    /\ pc[r] = "finally_context"
    /\ Release(r, loc[r].context, "context", {"ok", "error"})
    /\ UNCHANGED <<scenario, ip, loc, frames, frameIdx, failing>>

\* if browser: await browser.close()
CloseBrowser(r) ==
    /\ pc[r] = "finally_browser"
    /\ Release(r, loc[r].browser, "browser", {"ok"})
    /\ UNCHANGED <<scenario, ip, loc, frames, frameIdx, failing>>

\* if pw: await pw.stop()
StopPw(r) ==
    /\ pc[r] = "finally_pw"
    /\ Release(r, loc[r].pw, "pw", {"ok"})
    /\ UNCHANGED <<scenario, ip, loc, frames, frameIdx, failing>>

\* run_test() returns or re-raises, and asyncio.run(run_test()) ends the script.
Exit(r) ==
    /\ pc[r] = "exit"
    /\ pc' = Set(pc, r, "done")
    /\ hist' = Set(hist, r, [hist[r] EXCEPT !.verdicts = Append(@, Verdict(exc[r]))])
    /\ UNCHANGED <<scenario, ip, loc, exc, handles, frames, frameIdx, failing>>

Next ==
    \E r \in Runs :
       \/ PwStart(r) \/ Launch(r) \/ NewContext(r) \/ NewPage(r)
       \/ GotoInitial(r) \/ WaitMainLoad(r) \/ EnterFrames(r) \/ WaitFrameLoad(r)
       \/ PagesLast(r) \/ Locator(r) \/ WaitForTimeout(r) \/ Click(r) \/ Fill(r)
       \/ Goto(r) \/ MouseWheel(r) \/ Query(r) \/ AssertStmt(r) \/ Sleep(r)
       \/ CloseContext(r) \/ CloseBrowser(r) \/ StopPw(r) \/ Exit(r)

Spec == Init /\ [][Next]_vars

\* The coroutine is suspended in an await of its try block after the
\* acquisitions: a navigation, a load wait, a settle delay, a fill or click, a
\* query of a checkpoint, or the final sleep.
Suspended(r) ==
    \/ pc[r] \in {"goto", "wait_main", "wait_frame"}
    \/ /\ pc[r] = "body"
       /\ Stmt(r).op \in {"wait_for_timeout", "click", "fill", "goto", "query",
                          "sleep"}

\* The caller cancels the task: CancelledError is raised at the await the
\* coroutine is suspended in.  It is a BaseException, so `except
\* async_api.Error` does not catch it and it leaves the try block.
Cancel(r) ==
    /\ Suspended(r)
    /\ ~Swallowed("CancelledError")
    /\ Leave(r, "CancelledError", [hist[r] EXCEPT !.cancelled = TRUE])
    /\ UNCHANGED <<scenario, ip, loc, handles, frames, frameIdx, failing>>

CancelNext == \E r \in Runs : Cancel(r)

\* run_test under a caller that may cancel it.
CancelSpec == Init /\ [][Next \/ CancelNext]_vars

\* The click just completed makes the application open an additional page in
\* the context (a link with target=_blank, window.open).
OpenPage(r) ==
    /\ pc[r] = "body" /\ hist[r].step.ip # 0 /\ ip[r] = hist[r].step.ip + 1
    /\ Prog(scenario[r])[hist[r].step.ip].op = "click"
    /\ handles[H(r, "popup")] = "absent"
    /\ handles' = [handles EXCEPT ![H(r, "popup")] = "open"]
    /\ UNCHANGED <<scenario, pc, ip, loc, exc, frames, frameIdx, failing, hist>>

PopupNext == \E r \in Runs : OpenPage(r)

\* run_test against an application that may open additional pages.
PopupSpec == Init /\ [][Next \/ PopupNext]_vars

\* Two coroutines of run_test interleaved by one event loop: the login script
\* and the coverage script, which between them hold every kind of statement.
\* The interleaving is explored for runs whose frame waits return in time; the
\* handles a run touches do not depend on that.
ConcScripts == <<TC002, TC016>>
ConcInit ==
    /\ scenario = [r \in Runs |-> ConcScripts[r]]
    /\ failing = [r \in Runs |-> {}]
    /\ pc = [r \in Runs |-> "start"]
    /\ ip = [r \in Runs |-> 0]
    /\ loc = [r \in Runs |-> NoLoc]
    /\ exc = [r \in Runs |-> "none"]
    /\ handles = [h \in HandleIds |-> "absent"]
    /\ frames = [r \in Runs |-> << >>]
    /\ frameIdx = [r \in Runs |-> 0]
    /\ hist = [r \in Runs |-> NoHist]

ConcEnv == \A r \in Runs : hist[r].timedOut = {}

ConcSpec == ConcInit /\ [][Next /\ ConcEnv']_vars

\* The event loop runs the coroutine until it finishes: every awaited operation
\* returns or raises, so a run that can take a step eventually takes one.
LiveSpec == Init /\ [][Next]_vars /\ WF_vars(Next)

\* ======================================================== properties
Live(r) == scenario[r] # 0
InTry(r) ==
    pc[r] \in {"start", "launch", "new_context", "new_page", "goto", "wait_main",
               "enter_frames", "wait_frame", "body"}
InFinally(r) == pc[r] \in {"finally_context", "finally_browser", "finally_pw"}
Left(r) == InFinally(r) \/ pc[r] \in {"exit", "done"}
Done(r) == pc[r] = "done"
\* The local variables of run_test that hold a handle that was acquired.
Acquired(r) == {k \in {"pw", "browser", "context"} : loc[r][k] # None}
\* The predicates of the script that do not hold: `assert False` never does.
NotHolding(r) == failing[r] \cup (Asserts(scenario[r]) \ EnvAsserts(scenario[r]))
Min(S) == CHOOSE m \in S : \A x \in S : m <= x

\* C1: in every run, whatever the outcomes of its steps and assertions, the
\* release (the finally clause) is entered exactly once by the time the run
\* ends, never more than once, and no navigation, wait, step or assertion is
\* begun once it has been entered.
C1_ReleaseExactlyOnce ==
    \A r \in Runs :
       /\ hist[r].released <= 1
       /\ Left(r) /\ pc[r] # "finally_context" => hist[r].released = 1
       /\ InTry(r) => hist[r].released = 0
       /\ hist[r].released >= 1 => hist[r].attempts = hist[r].attemptsAtRelease

\* A run that ended after one of its fill/click steps raised, released once.
C1_Witness ==
    \E r \in Runs :
       /\ Done(r) /\ hist[r].failIp # 0 /\ hist[r].released = 1
       /\ hist[r].attempts > 3

\* Torn Down: the finally clause has run and run_test has ended.
TornDown(r) == Done(r) /\ hist[r].released = 1

\* C2: from every state of a run (idle, session acquired, navigating,
\* executing, asserting, and with an exception propagating from any of them)
\* the run eventually reaches Torn Down, and stays there.
C2_EventuallyTornDown == <>[](\A r \in Runs : Live(r) => TornDown(r))

\* A run torn down after the NameError of a mouse.wheel statement.
C2_Witness ==
    \E r \in Runs : TornDown(r) /\ exc[r] = "NameError" /\ hist[r].closeLog # << >>

\* C3: during release the context is closed first, then the browser, then the
\* Playwright handle: browser.close() is never called while a context that was
\* acquired has not had close() called, pw.stop() is never called while a
\* browser that was acquired has not had close() called, and no handle is
\* closed twice.
C3_ReleaseOrder ==
    \A r \in Runs :
       LET log == hist[r].closeLog
       IN  /\ \A i, j \in 1..Len(log) : i # j => log[i] # log[j]
           /\ \A i \in 1..Len(log) :
                /\ log[i] = "browser" /\ loc[r].context # None
                      => \E j \in 1..(i - 1) : log[j] = "context"
                /\ log[i] = "pw" /\ loc[r].browser # None
                      => \E j \in 1..(i - 1) : log[j] = "browser"
                /\ log[i] = "pw" /\ loc[r].context # None
                      => \E j \in 1..(i - 1) : log[j] = "context"

\* A release that closed all three handles.
C3_Witness ==
    \E r \in Runs : hist[r].closeLog = <<"context", "browser", "pw">>

CheckpointRan(r) ==
    /\ Done(r) /\ hist[r].evald # << >>
    /\ exc[r] \in {"none", "AssertionError"}

\* C5 as claimed: in a checkpoint of N predicates all N are evaluated exactly
\* once whatever the earlier ones gave, and the failed assertions reported are
\* exactly the predicates that do not hold.
C5_AllEvaluated ==
    \A r \in Runs :
       CheckpointRan(r) =>
          /\ Len(hist[r].evald) = Cardinality(Asserts(scenario[r]))
          /\ Range(hist[r].evald) = Asserts(scenario[r])
          /\ hist[r].reported = NotHolding(r)

\* C5 amended: the predicates are evaluated in declared order, each at most
\* once, up to and including the first one that does not hold; the ones after
\* it are not evaluated, and the one failure reported is that first one.  When
\* all N hold, all N are evaluated exactly once and none is reported.
C5_StopsAtFirstFailure ==
    \A r \in Runs :
       CheckpointRan(r) =>
          LET A == Asserts(scenario[r])
              bad == NotHolding(r)
              ev == hist[r].evald
          IN  /\ \A i, j \in 1..Len(ev) : i < j => ev[i] < ev[j]
              /\ IF bad = {}
                 THEN Range(ev) = A /\ hist[r].reported = {} /\ exc[r] = "none"
                 ELSE /\ Range(ev) = {a \in A : a <= Min(bad)}
                      /\ hist[r].reported = {Min(bad)}
                      /\ exc[r] = "AssertionError"

\* Two predicates are false, the first one was reported, later ones never ran.
C5_Witness ==
    \E r \in Runs :
       /\ CheckpointRan(r) /\ Cardinality(failing[r]) = 2
       /\ Cardinality(hist[r].reported) = 1
       /\ Len(hist[r].evald) < Cardinality(Asserts(scenario[r]))

\* A fill or click found no element, or none it could act on, within its timeout.
StepTimedOut(r) == hist[r].failCause \in {"not_found", "not_actionable"}

\* C6 as claimed: when a fill or click step fails because its element is not
\* found or not actionable within the timeout, the statements declared after
\* it are still attempted (here in the weakest form: the next one is).
C6_LaterStepsAttempted ==
    \A r \in Runs :
       Done(r) /\ StepTimedOut(r) /\ hist[r].failIp < Len(Prog(scenario[r]))
          => hist[r].lateSteps >= 1

\* C6 amended: such a failure is a TimeoutError that propagates out of the try
\* block: no statement declared after the failing step is attempted, the run
\* goes straight to the release and ends with the outcome Error, exactly as
\* for a setup or infrastructure failure.
C6_StepFailureAborts ==
    \A r \in Runs :
       StepTimedOut(r) =>
          /\ Left(r)
          /\ ip[r] = hist[r].failIp
          /\ hist[r].lateSteps = 0
          /\ exc[r] \in {"TimeoutError", "Error"}
          /\ InFinally(r) => exc[r] = "TimeoutError"
          /\ Done(r) => hist[r].released = 1 /\ hist[r].verdicts = <<"Error">>

\* A run ended by an element that was found but could not be acted on, with
\* statements still undone after it.
C6_Witness ==
    \E r \in Runs :
       /\ Done(r) /\ hist[r].failCause = "not_actionable"
       /\ hist[r].failIp < Len(Prog(scenario[r])) /\ hist[r].lateSteps = 0

\* C7 as claimed: a resolution that finds zero matching elements gives its
\* caller a NotFound value, and no error propagates out of the step using it.
C7_NotFoundValue ==
    \A r \in Runs :
       /\ hist[r].located # "none" /\ hist[r].locMatches = 0
             => hist[r].located = "NotFound"
       /\ hist[r].failCause = "not_found" => exc[r] = "none"

\* C7 amended: building the locator never raises and never gives NotFound: it
\* gives a locator whatever the document holds.  Zero matches show only in the
\* fill or click that uses the locator, which raises TimeoutError once its
\* timeout has passed; that error propagates out of the step and ends the try
\* block.
C7_MissingElementRaisesInStep ==
    \A r \in Runs :
       /\ hist[r].located \in {"none", "locator"}
       /\ hist[r].located = "locator" => loc[r].elem # None
       /\ hist[r].failCause = "not_found" =>
             /\ Left(r) /\ exc[r] \in {"TimeoutError", "Error"}
             /\ InFinally(r) => exc[r] = "TimeoutError"
             /\ hist[r].located = "locator"

\* A locator built while the document had no match, and the step using it
\* left with a TimeoutError.
C7_Witness ==
    \E r \in Runs :
       /\ hist[r].located = "locator" /\ hist[r].locMatches = 0
       /\ hist[r].failCause = "not_found" /\ exc[r] = "TimeoutError"
       /\ pc[r] = "finally_context"

\* The frames the settle pass has to wait for: the main page (0) and page.frames.
PassFrames(r) == {0} \cup Range(frames[r])
InPass(r) == pc[r] \in {"wait_main", "enter_frames", "wait_frame"}

\* C8: a load-state wait of the settle pass that times out (main page or
\* frame) does not end the pass: the run leaves the pass only into its first
\* step, by then every frame of the list has had its wait attempted, and the
\* frames that timed out are still frames of the list.
C8_SettleTolerates ==
    \A r \in Runs :
       /\ hist[r].timedOut \subseteq hist[r].settled
       /\ pc[r] \in {"wait_frame", "body"} => hist[r].settled \subseteq PassFrames(r)
       /\ hist[r].settled # {} /\ ~InPass(r) => hist[r].bodyReached
       /\ hist[r].bodyReached =>
             /\ hist[r].settled = PassFrames(r)
             /\ frames[r] = [i \in 1..Len(frames[r]) |-> i]
             /\ Len(frames[r]) >= 1
       /\ pc[r] = "body" /\ ip[r] = 1 => exc[r] = "none"

\* Every wait of the pass timed out, and the first step is about to run.
C8_Witness ==
    \E r \in Runs :
       /\ pc[r] = "body" /\ ip[r] = 1 /\ Len(frames[r]) >= 2
       /\ hist[r].timedOut = PassFrames(r)

\* C9: when pw start, browser launch or context creation raises, the run ends
\* with the outcome Error, no navigation, wait or step is attempted, and the
\* release runs once without raising: it closes exactly the handles that were
\* acquired, and nothing when none was.
C9_AcquisitionFailure ==
    \A r \in Runs :
       hist[r].acqFailed # "none" =>
          /\ Left(r) /\ exc[r] = "Error"
          /\ hist[r].attempts = 0 /\ loc[r].page = None
          /\ ~hist[r].releaseRaised
          /\ Range(hist[r].closeLog) \subseteq Acquired(r)
          /\ Done(r) =>
                /\ hist[r].released = 1
                /\ hist[r].verdicts = <<"Error">>
                /\ Range(hist[r].closeLog) = Acquired(r)
                /\ \A k \in HandleKinds :
                      handles[H(r, k)] = IF k \in Acquired(r) THEN "closed" ELSE "absent"
          /\ hist[r].acqFailed = "start" => hist[r].closeLog = << >>

\* Context creation failed: the browser and the Playwright handle, and only
\* they, were closed.
C9_Witness ==
    \E r \in Runs :
       /\ Done(r) /\ hist[r].acqFailed = "new_context"
       /\ hist[r].closeLog = <<"browser", "pw">>

\* C10: once a browser operation of the run has raised a non-timeout Error the
\* run is out of its try block (no further step), the release runs, and the
\* outcome is Error; a run in which an assert failed and no such error occurred
\* has the outcome Failed; so Failed is only ever the outcome of a failed
\* assert and never that of an infrastructure failure.
C10_ErrorVersusFailed ==
    \A r \in Runs :
       /\ hist[r].infra => Left(r) /\ exc[r] = "Error"
       /\ Done(r) =>
             LET v == hist[r].verdicts[1]
             IN  /\ hist[r].released = 1
                 /\ hist[r].infra => v = "Error"
                 /\ hist[r].reported # {} /\ ~hist[r].infra => v = "Failed"
                 /\ v = "Failed" => hist[r].reported # {} /\ ~hist[r].infra

\* A later navigation of a script raised Error; the run ended with Error.
C10_Witness ==
    \E r \in Runs :
       /\ Done(r) /\ hist[r].infra /\ ~hist[r].releaseRaised
       /\ ip[r] >= 1 /\ Stmt(r).op = "goto" /\ hist[r].verdicts = <<"Error">>

\* C11 as stated: a run in which the query of a checkpoint raised ends with an
\* outcome other than Error and with a failed assertion on record.
C11_EvaluationErrorRecorded ==
    \A r \in Runs :
       Done(r) /\ hist[r].evalErr # 0
          => hist[r].verdicts[1] # "Error" /\ hist[r].reported # {}

\* C11: a query of a checkpoint that raises while it is awaited (the element
\* waited for never becomes visible, or the browser is gone) is not recorded as
\* a failed assertion: its exception leaves the try block at that statement, the
\* assert it feeds is never evaluated, no assertion is reported, and the
\* outcome of the run is Error; only a predicate that returned false gives
\* AssertionError and Failed.
C11_EvaluationErrorPropagates ==
    \A r \in Runs :
       hist[r].evalErr # 0
          => /\ Left(r) /\ ip[r] = hist[r].evalErr
             /\ exc[r] \in {"TimeoutError", "Error"}
             /\ hist[r].reported = {}
             /\ \A i \in Range(hist[r].evald) : i < hist[r].evalErr
             /\ Done(r) => hist[r].verdicts = <<"Error">>

\* The wait for a dashboard element of TC013_Role timed out: the run ended with
\* Error and nothing reported.
C11_Witness ==
    \E r \in Runs :
       /\ Done(r) /\ scenario[r] = TC013R
       /\ hist[r].evalErr # 0 /\ hist[r].evalErr = ip[r]
       /\ Stmt(r).arg = "wait_for" /\ exc[r] = "TimeoutError"
       /\ hist[r].reported = {} /\ hist[r].verdicts = <<"Error">>

\* The checkpoint of the login workflow: the assert of TC002 line 77.
LoginCheckpoint ==
    CHOOSE i \in DOMAIN Prog_TC002 :
       Prog_TC002[i].op = "assert" /\ Prog_TC002[i].line = 77

\* C12: a run of the login workflow (TC002) against an application that does
\* not redirect (the URL lacks the dashboard path and the dashboard text is not
\* shown), with no browser failure, ends Failed: AssertionError from the
\* checkpoint of line 77, exactly that one assertion reported, no step and no
\* query raised.
C12_LoginRejectedFails ==
    \A r \in Runs :
       /\ scenario[r] = TC002 /\ Done(r) /\ ~hist[r].infra
       /\ hist[r].redirected = "no" /\ hist[r].dashVisible = "no"
       => /\ hist[r].verdicts = <<"Failed">>
          /\ exc[r] = "AssertionError"
          /\ hist[r].reported = {LoginCheckpoint}
          /\ Cardinality(hist[r].reported) = 1
          /\ hist[r].failIp = 0 /\ hist[r].evalErr = 0

\* The login was rejected and the run ended Failed, although the three
\* predicates after the checkpoint do not hold either.
C12_Witness ==
    \E r \in Runs :
       /\ scenario[r] = TC002 /\ Done(r) /\ hist[r].redirected = "no"
       /\ hist[r].dashVisible = "no" /\ hist[r].verdicts = <<"Failed">>
       /\ hist[r].reported = {LoginCheckpoint}
       /\ Cardinality(failing[r]) > 1

\* C13 as stated: a run of the login workflow against an application that
\* redirects to the dashboard, with no browser failure, ends Passed with no
\* failed assertion.
C13_RedirectPasses ==
    \A r \in Runs :
       scenario[r] = TC002 /\ Done(r) /\ ~hist[r].infra
       /\ hist[r].redirected = "yes"
       => hist[r].verdicts = <<"Passed">> /\ hist[r].reported = {}

\* C13: when the application redirects to the dashboard the checkpoint of line
\* 77 holds and is never reported; the run ends Passed with no failed assertion
\* and with context, browser and driver closed in that order exactly when the
\* three predicates after it (lines 80, 83, 86) hold too, and ends Failed with
\* the first of them that does not hold as the one reported assertion otherwise.
C13_RedirectAndFeaturesPass ==
    \A r \in Runs :
       scenario[r] = TC002 /\ Done(r) /\ ~hist[r].infra
       /\ hist[r].redirected = "yes"
       => /\ LoginCheckpoint \notin hist[r].reported
          /\ failing[r] = {} =>
                /\ hist[r].verdicts = <<"Passed">> /\ exc[r] = "none"
                /\ hist[r].reported = {} /\ hist[r].released = 1
                /\ hist[r].closeLog = <<"context", "browser", "pw">>
                /\ \A k \in Acquired(r) : handles[loc[r][k]] = "closed"
          /\ failing[r] # {} =>
                /\ hist[r].verdicts = <<"Failed">>
                /\ hist[r].reported = {Min(failing[r])}

\* The application redirected, the four predicates held, the run ended Passed
\* and torn down.
C13_Witness ==
    \E r \in Runs :
       /\ scenario[r] = TC002 /\ Done(r) /\ hist[r].redirected = "yes"
       /\ failing[r] = {} /\ hist[r].verdicts = <<"Passed">>
       /\ hist[r].closeLog = <<"context", "browser", "pw">>

\* C14 as stated: no navigation whose page commits but never finishes loading
\* raises.
C14_NavigateNeverWaitsForLoad == \A r \in Runs : hist[r].navHang # "raised"

\* C14: only the initial navigation (wait_until="commit") returns once the
\* response has committed, so a page that commits and never loads lets it pass
\* on to the best-effort load wait; every later navigation of a script is made
\* with the default wait_until="load", and such a page makes it raise
\* TimeoutError, which ends the try block at that statement.
C14_OnlyInitialWaitsForCommit ==
    \A r \in Runs :
       /\ hist[r].navHang = "passed"
             => pc[r] = "wait_main" /\ exc[r] = "none"
       /\ hist[r].navHang = "raised"
             => /\ Left(r) /\ ip[r] >= 1
                /\ Stmt(r).op = "goto" /\ Stmt(r).arg = "load"
                /\ hist[r].releaseRaised \/ exc[r] = "TimeoutError"
                /\ Done(r) => hist[r].verdicts = <<"Error">>

\* The page of a later navigation of TC011 committed and never loaded; the
\* goto raised and the run ended Error.
C14_Witness ==
    \E r \in Runs :
       /\ Done(r) /\ scenario[r] = TC011 /\ hist[r].navHang = "raised"
       /\ exc[r] = "TimeoutError" /\ hist[r].verdicts = <<"Error">>

\* The exception a failed fill or click is reported with, by cause.
KindReported(c) ==
    Interact(c # "crash", IF c = "not_found" THEN 0 ELSE 1, c # "not_actionable")

\* C15 as stated: a failed fill or click is never reported with the failure
\* kind that a failure of another cause is reported with.
C15_DistinctCauses ==
    \A r \in Runs :
       \A c \in {"not_found", "not_actionable", "crash"} :
          hist[r].failCause \notin {"none", c}
             => hist[r].failKind # KindReported(c)

\* C15: a failed fill or click is reported with one of two kinds only: the
\* TimeoutError of the call, whether the element was never found or was found
\* and never became actionable, and Error when the browser is gone; the first
\* two causes are not told apart.
C15_TimeoutCollapsesCauses ==
    \A r \in Runs :
       /\ hist[r].failCause \in {"not_found", "not_actionable"}
             => hist[r].failKind = "TimeoutError"
       /\ hist[r].failCause = "crash" => hist[r].failKind = "Error"
       /\ hist[r].failKind # "none"
             => /\ hist[r].failCause # "none" /\ Left(r)
                /\ hist[r].releaseRaised \/ exc[r] = hist[r].failKind
       /\ KindReported("not_found") = KindReported("not_actionable")

\* A click found its element, the element never became actionable, and the run
\* ended with the TimeoutError a missing element gives.
C15_Witness ==
    \E r \in Runs :
       /\ Done(r) /\ hist[r].failCause = "not_actionable"
       /\ hist[r].failKind = "TimeoutError" /\ exc[r] = KindReported("not_found")

\* The handles held in the local variables of a run.
Held(r) == {loc[r][k] : k \in DOMAIN loc[r]} \ {None}
Touched(r) == hist[r].used \cup hist[r].closed

\* C16: with two runs interleaved by one event loop, every handle a run holds
\* in a local variable is one it acquired itself; the handles its statements
\* are invoked on and the handles it closes are among them and are neither
\* held nor touched by the other run; while a run is in its try block the
\* handles it acquired are open, whatever the other run has closed; and each
\* run enters its finally clause once and closes no handle twice.
C16_RunsOwnTheirHandles ==
    \A r \in Runs :
       /\ \A x \in Held(r) : x.owner = r
       /\ Touched(r) \subseteq Held(r)
       /\ \A q \in Runs \ {r} : Touched(r) \cap (Held(q) \cup Touched(q)) = {}
       /\ InTry(r) => \A x \in Held(r) : handles[x] = "open"
       /\ hist[r].released <= 1
       /\ Done(r) => hist[r].released = 1
       /\ Cardinality(hist[r].closed) = Len(hist[r].closeLog)

\* One run has ended with its three handles closed while the other is in the
\* middle of its steps on its own open page.
C16_Witness ==
    \E r \in Runs, q \in Runs :
       /\ r # q /\ Done(r) /\ Cardinality(hist[r].closed) = 3
       /\ pc[q] = "body" /\ hist[q].used # {}
       /\ loc[q].page # None /\ handles[loc[q].page] = "open"

\* C17: once a run cancelled while suspended in a wait, navigation, step or
\* assertion has ended, every handle it had acquired is closed.
C17_CancelledRunClosesAll ==
    \A r \in Runs :
       Done(r) /\ hist[r].cancelled
          => \A k \in Acquired(r) : handles[loc[r][k]] = "closed"

\* The run is suspended in an operation that waits for the application, and
\* the timeout that bounds that wait.
Waiting(r) ==
    \/ pc[r] \in {"goto", "wait_main", "wait_frame"}
    \/ /\ pc[r] = "body"
       /\ \/ Stmt(r).op \in {"click", "fill", "goto"}
          \/ Stmt(r).op = "query" /\ Stmt(r).arg \in {"wait_for", "text_content"}
WaitBound(r) ==
    IF pc[r] = "goto" THEN TimeoutOf("goto", "commit")
    ELSE IF pc[r] \in {"wait_main", "wait_frame"} THEN TimeoutOf("load_state", "")
    ELSE TimeoutOf(Stmt(r).op, Stmt(r).arg)
\* Navigating, Executing, Asserting: the positions of the try block after the
\* acquisitions.
InWorkflow(r) ==
    pc[r] \in {"goto", "wait_main", "enter_frames", "wait_frame", "body", "hung"}

\* C18: every operation of a run that waits for the application carries a
\* positive timeout, its own or the default of the context, no run is ever
\* suspended for good in a wait, and every run is eventually out of
\* navigating, executing steps and asserting for good, whatever the application
\* does.
C18_EveryWaitEnds ==
    /\ [](\A r \in Runs : pc[r] # "hung" /\ (Waiting(r) => WaitBound(r) > 0))
    /\ <>[](\A r \in Runs : ~InWorkflow(r))

\* The application answered nothing after the initial navigation: each load
\* wait timed out, the first fill or click never found its element, and the run
\* has ended.
C18_Witness ==
    \E r \in Runs :
       /\ Done(r) /\ hist[r].timedOut = PassFrames(r)
       /\ hist[r].failCause = "not_found" /\ hist[r].failKind = "TimeoutError"
       /\ \A i \in 1..(hist[r].failIp - 1) :
             Prog(scenario[r])[i].op \notin {"click", "fill", "goto"}

\* The last fill or click of the run, as a statement of its script.
LastStep(r) == Prog(scenario[r])[hist[r].step.ip]
\* The outcome of the last fill or click followed the document as it was when
\* the call was awaited: it found no element exactly when none matched then.
LiveLookup(r) ==
    /\ hist[r].step.found = 0
          => /\ hist[r].failIp = hist[r].step.ip
             /\ hist[r].failCause \in {"not_found", "crash"}
    /\ hist[r].failIp = hist[r].step.ip /\ hist[r].failCause = "not_found"
          => hist[r].step.found = 0

\* C19 as stated: every fill or click is attempted right after its settle
\* delay has completed, and looks its element up in the document at that
\* moment.
C19_SettleBeforeEveryStep ==
    \A r \in Runs :
       hist[r].step.ip # 0 => hist[r].step.delayed /\ LiveLookup(r)

\* C19: every fill or click of a generated step (on `elem`) is attempted right
\* after its settle delay has completed and on a locator built in that step;
\* the two `logout_button.click()` of TC013_Role (lines 122, 131) are
\* attempted with no settle delay before them, the second on the locator
\* built for the first; in every case the element is looked up in the
\* document when the fill or click is awaited, not when the locator is built.
C19_SettleBeforeGeneratedSteps ==
    \A r \in Runs :
       hist[r].step.ip # 0
          => /\ LastStep(r).op \in {"click", "fill"}
             /\ LastStep(r).arg = "explicit"
                   => hist[r].step.delayed /\ hist[r].step.own
             /\ LastStep(r).arg # "explicit"
                   => /\ scenario[r] = TC013R /\ LastStep(r).line \in {122, 131}
                      /\ ~hist[r].step.delayed
                      /\ hist[r].step.own <=> LastStep(r).line = 122
             /\ LiveLookup(r)

\* The second logout click of TC013_Role was made with no delay before it, on
\* the locator of line 121, found its element, and the run went on to pass.
C19_Witness ==
    \E r \in Runs :
       /\ scenario[r] = TC013R /\ Done(r) /\ hist[r].step.ip # 0
       /\ LastStep(r).line = 131 /\ ~hist[r].step.delayed /\ ~hist[r].step.own
       /\ hist[r].step.found = 1 /\ hist[r].verdicts = <<"Passed">>

\* No browser operation of the run failed: nothing awaited timed out or
\* raised Error, in the try block or in the release.
BrowserOpsSucceeded(r) ==
    /\ exc[r] \notin {"TimeoutError", "Error"}
    /\ ~hist[r].infra /\ ~hist[r].releaseRaised
    /\ hist[r].timedOut = {}
\* The `assert False` that ends a script.
FinalAssert(s) == Asserts(s) \ EnvAsserts(s)

\* C20: a run of the sign-up (TC001), candidate-application (TC011) or
\* interview-scheduling (TC015) script in which every browser operation
\* succeeds ends Failed, with the final `assert False` as the reported
\* assertion.
C20_FinalAssertFails ==
    \A r \in Runs :
       Done(r) /\ scenario[r] \in {TC001, TC011, TC015} /\ BrowserOpsSucceeded(r)
          => /\ hist[r].verdicts = <<"Failed">>
             /\ hist[r].reported = FinalAssert(scenario[r])

\* C21: a run of any script in which every browser operation succeeds has, by
\* the time it ends, attempted every fill and click that the script places
\* before its first assert, and evaluated that assert.
C21_ReachesAsserting ==
    \A r \in Runs :
       Done(r) /\ Live(r) /\ BrowserOpsSucceeded(r)
          => /\ hist[r].evald # << >>
             /\ hist[r].evald[1] = Min(Asserts(scenario[r]))
             /\ \A i \in Interactions(scenario[r]) :
                   i < Min(Asserts(scenario[r])) => i <= hist[r].step.ip

\* C22: when a run whose context.close() raised in the release has ended, the
\* close of every handle it had acquired (context, browser, driver) has been
\* attempted.
C22_CloseAttemptedForAll ==
    \A r \in Runs :
       Done(r) /\ hist[r].releaseRaised
          => \A k \in Acquired(r) : k \in Range(hist[r].closeLog)

\* C23: at every fill or click, the page the element is located on (the last
\* of context.pages when the step began) is the page the settle delay ran on
\* (the one new_page() returned).
C23_SamePage == \A r \in Runs : hist[r].step.ip # 0 => hist[r].step.samePage

====
